---- MODULE Spec2Model ----
(***************************************************************************)
(* pytray.aiothreads: LoopScheduler, a bridge between caller threads and   *)
(* an asyncio event loop driven by one worker thread.                      *)
(*                                                                         *)
(* Caller threads call start/stop/close/__enter__/__exit__/submit/run/     *)
(* await_submit/await_ and cancel the futures submit returned.  Each start *)
(* creates a worker thread that runs _run_loop; the thread driving the     *)
(* loop executes the handles of the loop's ready queue one at a time.      *)
(* Every read or write of a field shared between threads is its own step.  *)
(***************************************************************************)
EXTENDS Integers, Sequences, FiniteSets, TLC

\* Lifecycle calls (start, stop, close, __enter__, __exit__) and work calls
\* (submit, run) of the one caller of Spec.
MaxLife == 4
MaxWork == 2
\* Work calls (submit, run, await_submit, await_) of the one caller of
\* SpecWork, which makes no lifecycle call.
WorkCalls == 2
\* Lifecycle and work calls of each of the two callers of SpecConc.
ConcLife == 1
ConcWork == 1
\* Work calls of the one caller of SpecBridge.
BridgeCalls == 2
\* Work calls of the one caller of SpecMarshal.
MarshalCalls == 1
\* Await calls of the one caller of SpecChain.
ChainCalls == 1
\* with statements (ctx, async_ctx) of the one caller of SpecCtx.
CtxCalls == 2
\* The most elements the source of an async_iter produces.
MaxItems == 3
\* Lifecycle calls of the first caller of SpecStop (start, stop) and stop()
\* calls of its second caller.
StopLife == 2
StopCalls == 1

Callers == {"c1", "c2"}
\* Ids for the worker threads: every call starts at most one.
ThreadIds == 1..(MaxLife + MaxWork + WorkCalls + BridgeCalls
                 + 2 * (ConcLife + ConcWork) + StopLife + CtxCalls + 1)
\* The code never inspects a value or an exception it passes on, so the
\* value (the exception) of the work bound to the k-th future is named after k.
Vals == <<"v1", "v2", "v3", "v4", "v5", "v6", "v7", "v8">>
Excs == <<"e1", "e2", "e3", "e4", "e5", "e6", "e7", "e8">>
\* The elements a source produces, in order.
Items == <<"i1", "i2", "i3", "i4">>
\* What a submitted callable does: return a value, raise, or return an
\* asyncio future it created on the loop.
Funcs == {"ret", "raise", "fut"}
\* The callables that return no future.
Plain == {"ret", "raise"}
\* What an awaited coroutine does after suspending once: return or raise.
Coros == {"ret", "raise"}
\* How loop-side code may settle an asyncio future.
Outcomes == {"value", "exc", "cancelled"}

VARIABLES
  asyncio_thread,  \* LoopScheduler._asyncio_thread: 0 is None, else a worker id
  stop_signal,     \* LoopScheduler._stop_signal: 0 is None, else the id of the
                   \* worker whose _run_loop created that asyncio future
  closed,          \* LoopScheduler._closed
  workers,         \* the threads start() created, in order of creation
  futs,            \* the thread futures submit/await_submit returned, with
                   \* the work bound to each
  ready,           \* the loop's queue of handles (call_soon, FIFO)
  ntodo,           \* handles left in the loop's current iteration
  stopping,        \* the loop's stop flag (set by run_until_complete's callback)
  driver,          \* the worker inside run_until_complete, 0 if none
  incb,            \* the submit callback the driver is inside of, 0 if none
  timers,          \* coroutines suspended in a sleep
  escaped,         \* exceptions that left a handle into the loop's own frame
  start_future,    \* start()'s local start_future, per caller
  stop_future,     \* stop()'s local stop_future, per caller
  th               \* caller threads: position, current call, locals

vars == <<asyncio_thread, stop_signal, closed, workers, futs, ready, ntodo,
          stopping, driver, incb, timers, escaped, start_future, stop_future, th>>

sched == <<asyncio_thread, stop_signal, closed>>
loopv == <<ready, ntodo, stopping, driver, incb, timers, escaped>>

NoLast == [op |-> "none", out |-> "none", val |-> "none", fut |-> 0]

\* The frame of ctx, async_ctx or async_iter a caller thread is inside of:
\* what the resource's enter and exit do, how the block ended, whether enter
\* succeeded, how often exit was called and with which exception
\* information, how the whole statement ended; for async_iter what the
\* source produces, what was yielded and how often next was requested.
NoFrame ==
  [kind |-> "none", phase |-> "none", enter |-> "none", exit |-> "none",
   block |-> "none", entered |-> FALSE, exits |-> 0, info |-> "none",
   out |-> "none", src |-> <<>>, got |-> <<>>, asked |-> 0]

IdleThread(n) ==
  [pc |-> "idle", op |-> "none", fn |-> <<"none", "none">>, cur |-> 0,
   aio |-> 0, last |-> NoLast, life |-> n[1], work |-> n[2], cx |-> NoFrame]

InitWith(b) ==
  /\ asyncio_thread = 0
  /\ stop_signal = 0
  /\ closed = FALSE
  /\ workers = <<>>
  /\ futs = <<>>
  /\ ready = <<>>
  /\ ntodo = 0
  /\ stopping = FALSE
  /\ driver = 0
  /\ incb = 0
  /\ timers = {}
  /\ escaped = {}
  /\ start_future = [t \in Callers |-> "none"]
  /\ stop_future = [t \in Callers |-> "none"]
  /\ th = [t \in Callers |-> IdleThread(b[t])]

\* One caller thread uses the scheduler.
Init == InitWith([t \in Callers |-> IF t = "c1" THEN <<MaxLife, MaxWork>> ELSE <<0, 0>>])

\* One caller thread awaits coroutines whose result is an asyncio future.
InitChain == InitWith([t \in Callers |-> IF t = "c1" THEN <<0, ChainCalls>> ELSE <<0, 0>>])

\* One caller thread settles the ThreadFutures it gets for asyncio futures.
InitMarshal == InitWith([t \in Callers |-> IF t = "c1" THEN <<0, MarshalCalls>> ELSE <<0, 0>>])

\* One caller thread only submits work; the first call starts the worker.
InitWork == InitWith([t \in Callers |-> IF t = "c1" THEN <<0, WorkCalls>> ELSE <<0, 0>>])

\* One caller thread submits callables that return asyncio futures.
InitBridge == InitWith([t \in Callers |-> IF t = "c1" THEN <<0, BridgeCalls>> ELSE <<0, 0>>])

\* Two caller threads use the scheduler concurrently.
InitConc == InitWith([t \in Callers |-> <<ConcLife, ConcWork>>])

\* One caller thread may enter the scheduler and uses ctx and async_ctx.
InitCtx == InitWith([t \in Callers |-> IF t = "c1" THEN <<1, CtxCalls>> ELSE <<0, 0>>])

\* One caller thread iterates one source.
InitIter == InitWith([t \in Callers |-> IF t = "c1" THEN <<0, 1>> ELSE <<0, 0>>])

\* One caller thread starts and stops the scheduler, another one stops it.
InitStop == InitWith([t \in Callers |-> IF t = "c1" THEN <<StopLife, 0>> ELSE <<StopCalls, 0>>])

----
\* Caller-side helpers

LifeOps == {"start", "enter", "stop", "exit", "close"}

\* A call begins: the thread is between calls and has calls of that kind left.
CanCall(t, op) ==
  /\ th[t].pc = "idle"
  /\ IF op \in LifeOps THEN th[t].life > 0 ELSE th[t].work > 0

\* The thread's record when the call `op` ends with outcome `out`: the thread
\* is between calls, or back in the frame of ctx/async_ctx/async_iter that
\* made the call.
Finished(r, op, out, val, f) ==
  [r EXCEPT !.pc = IF r.cx.phase \in {"none", "done"} THEN "idle" ELSE "resume",
            !.op = "none", !.fn = <<"none", "none">>,
            !.cur = 0, !.aio = 0,
            !.last = [op |-> op, out |-> out, val |-> val, fut |-> f]]

Begun(r, op, fn) ==
  [r EXCEPT !.op = op, !.fn = fn, !.last = NoLast,
            !.life = IF op \in LifeOps THEN @ - 1 ELSE @,
            !.work = IF op \in LifeOps THEN @ ELSE @ - 1]

\* start() without the check of lines 126-127.
AlreadyRunning_Never == FALSE

\* start(), lines 126-127: the scheduler already has a worker thread.
AlreadyRunning == asyncio_thread # 0

\* start(), lines 125-127, called directly: raise when already running.
CallStart(t) ==
  /\ CanCall(t, "start")
  /\ th' = [th EXCEPT ![t] =
              IF AlreadyRunning
              THEN Finished(Begun(@, "start", <<"none", "none">>),
                            "start", "error", "AlreadyRunning", 0)
              ELSE [Begun(@, "start", <<"none", "none">>) EXCEPT !.pc = "start_create"]]
  /\ UNCHANGED <<sched, workers, futs, loopv, start_future, stop_future>>

\* _ensure_running(), lines 275-278, as the first step of the call `op`:
\* with a worker thread the call goes on at `next`, without one it calls start().
ensure_running(t, op, fn, next) ==
  /\ CanCall(t, op)
  /\ th' = [th EXCEPT ![t] =
              [Begun(@, op, fn) EXCEPT
                 !.pc = IF asyncio_thread # 0 THEN next ELSE "start_check"]]
  /\ UNCHANGED <<sched, workers, futs, loopv, start_future, stop_future>>

\* __enter__(), lines 103-105.
CallEnter(t) ==
  /\ CanCall(t, "enter")
  /\ th' = [th EXCEPT ![t] =
              IF asyncio_thread # 0
              THEN Finished(Begun(@, "enter", <<"none", "none">>), "enter", "ok", "none", 0)
              ELSE [Begun(@, "enter", <<"none", "none">>) EXCEPT !.pc = "start_check"]]
  /\ UNCHANGED <<sched, workers, futs, loopv, start_future, stop_future>>

\* start() called by _ensure_running: its own check, lines 126-127.
StartCheck(t) ==
  /\ th[t].pc = "start_check"
  /\ th' = [th EXCEPT ![t] =
              IF AlreadyRunning
              THEN Finished(@, @.op, "error", "AlreadyRunning", 0)
              ELSE [@ EXCEPT !.pc = "start_create"]]
  /\ UNCHANGED <<sched, workers, futs, loopv, start_future, stop_future>>

\* A thread start() has just created and started, running _run_loop(start_future).
NewWorker(t) ==
  [pc |-> "boot", starter |-> t, task |-> "none", awaits |-> 0,
   sig |-> "none", sigres |-> "none"]

\* start(), lines 129-134: a new ThreadFuture, a new thread stored in
\* _asyncio_thread and started.
StartCreate(t) ==
  /\ th[t].pc = "start_create"
  /\ workers' = Append(workers, NewWorker(t))
  /\ asyncio_thread' = Len(workers) + 1
  /\ start_future' = [start_future EXCEPT ![t] = "pending"]
  /\ th' = [th EXCEPT ![t].pc = "start_wait"]
  /\ UNCHANGED <<stop_signal, closed, futs, loopv, stop_future>>

\* Where a call goes on once its start() has returned.
AfterStart(r) ==
  CASE r.op \in {"start", "enter"} -> Finished(r, r.op, "ok", "none", 0)
    [] r.op \in {"submit", "run"} -> [r EXCEPT !.pc = "submit_post"]
    [] OTHER -> [r EXCEPT !.pc = "await_post"]

\* start() without line 135: it returns without waiting for start_future.
StartReturn_NoWait(t) ==
  /\ th[t].pc = "start_wait"
  /\ th' = [th EXCEPT ![t] = AfterStart(@)]
  /\ UNCHANGED <<sched, workers, futs, loopv, start_future, stop_future>>

\* start(), line 135: start_future.result() returns once the future is set.
StartReturn(t) ==
  /\ th[t].pc = "start_wait"
  /\ start_future[t] = "done"
  /\ th' = [th EXCEPT ![t] = AfterStart(@)]
  /\ UNCHANGED <<sched, workers, futs, loopv, start_future, stop_future>>

\* stop(), lines 139-141: save _asyncio_thread; return when there is none.
\* `mark` is whether the caller is close(), which then sets _closed (line 123).
StopEntry(t, r, op, mark) ==
  /\ th' = [th EXCEPT ![t] =
              IF asyncio_thread = 0
              THEN Finished(r, op, "ok", "none", 0)
              ELSE [r EXCEPT !.pc = "stop_post", !.op = op, !.aio = asyncio_thread]]
  /\ closed' = IF asyncio_thread = 0 /\ mark THEN TRUE ELSE closed
  /\ UNCHANGED <<asyncio_thread, stop_signal, workers, futs, loopv,
                 start_future, stop_future>>

\* stop(), lines 137-141.
CallStop(t) ==
  /\ CanCall(t, "stop")
  /\ StopEntry(t, Begun(th[t], "stop", <<"none", "none">>), "stop", FALSE)

\* __exit__(), lines 107-108: stop().
CallExit(t) ==
  /\ CanCall(t, "exit")
  /\ StopEntry(t, Begun(th[t], "exit", <<"none", "none">>), "exit", FALSE)

\* close(), lines 119-121: return when already closed.
CallClose(t) ==
  /\ CanCall(t, "close")
  /\ th' = [th EXCEPT ![t] =
              IF closed
              THEN Finished(Begun(@, "close", <<"none", "none">>), "close", "ok", "none", 0)
              ELSE [Begun(@, "close", <<"none", "none">>) EXCEPT !.pc = "close_stop"]]
  /\ UNCHANGED <<sched, workers, futs, loopv, start_future, stop_future>>

\* close(), lines 122-123, when stop() finds no worker thread.
CloseStop(t) ==
  /\ th[t].pc = "close_stop"
  /\ StopEntry(t, th[t], "close", TRUE)

\* stop(), lines 143-147: a new stop_future; post the callback that sets
\* _stop_signal's result to it.  _stop_signal is read here: None has no set_result.
StopPost(t) ==
  /\ th[t].pc = "stop_post"
  /\ IF stop_signal = 0
     THEN /\ th' = [th EXCEPT ![t] = Finished(@, @.op, "error", "AttributeError", 0)]
          /\ UNCHANGED <<ready, stop_future>>
     ELSE /\ stop_future' = [stop_future EXCEPT ![t] = "pending"]
          /\ ready' = Append(ready, <<"stop_cb", stop_signal, t>>)
          /\ th' = [th EXCEPT ![t].pc = "stop_wait"]
  /\ UNCHANGED <<sched, workers, futs, ntodo, stopping, driver, incb, timers,
                 escaped, start_future>>

\* stop(), line 149: stop_future.result() returns once the future is set.
StopWait(t) ==
  /\ th[t].pc = "stop_wait"
  /\ stop_future[t] = "done"
  /\ th' = [th EXCEPT ![t].pc = "stop_join"]
  /\ UNCHANGED <<sched, workers, futs, loopv, start_future, stop_future>>

\* A thread has ended: _run_loop returned or raised.
Terminated(w) == workers[w].pc \in {"exited", "crashed"}

\* stop(), line 150: join the saved thread; close() then sets _closed (line 123).
StopJoin(t) ==
  /\ th[t].pc = "stop_join"
  /\ Terminated(th[t].aio)
  /\ closed' = IF th[t].op = "close" THEN TRUE ELSE closed
  /\ th' = [th EXCEPT ![t] = Finished(@, @.op, "ok", "none", 0)]
  /\ UNCHANGED <<asyncio_thread, stop_signal, workers, futs, loopv,
                 start_future, stop_future>>

----
\* Thread futures and the submission surface

\* The work of kind `kind` bound to the k-th future.
Work(kind, k) ==
  <<kind, CASE kind = "ret" -> Vals[k]
            [] kind = "raise" -> Excs[k]
            [] kind = "suppress" -> "True"
            [] kind = "pass" -> "False"
            [] kind = "end" -> "StopAsyncIteration"
            [] OTHER -> "none">>

\* The ThreadFuture submit() or await_submit() returns, with the work bound to
\* it: `by` is the caller, `held` whether the caller got the future (submit,
\* await_submit) or only its result (run, await_), `fn` what the callable or
\* coroutine does, `ran` the thread that ran
\* it (0: not run), `cb` where submit's callback is, `hc` whether its loop
\* handle was cancelled, `fst`/`fval` the asyncio future the callable returned,
\* `bst`/`bval` the ThreadFuture put in its place and `chain` how the two are
\* chained; `f2st`/`f2val` the asyncio future that one resolved to,
\* `b2st`/`b2val` the ThreadFuture put in its place and `chain2` their chain;
\* `fby`/`f2by` the thread that settled the asyncio future: "loop" for the
\* thread driving the loop, else the caller.
NewFuture(op, t) ==
  [op |-> op, by |-> t, held |-> th[t].op \in {"submit", "await_submit"},
   fn |-> Work(th[t].fn[1], Len(futs) + 1), st |-> "pending", val |-> "none", ran |-> 0,
   cb |-> IF op = "submit" THEN "queued" ELSE "none", hc |-> FALSE,
   fst |-> "none", fval |-> "none", bst |-> "none", bval |-> "none",
   chain |-> "none",
   f2st |-> "none", f2val |-> "none", b2st |-> "none", b2val |-> "none",
   chain2 |-> "none", fby |-> "none", f2by |-> "none"]

Futures == 1..Len(futs)
Workers == 1..Len(workers)

\* submit(), line 204, and run(), line 198: _ensure_running() first.
CallSubmit(t, fn) == ensure_running(t, "submit", <<fn, "none">>, "submit_post")
CallRun(t, fn) == ensure_running(t, "run", <<fn, "none">>, "submit_post")

\* await_submit(), line 186, and await_(), line 164: _ensure_running() first.
CallAwaitSubmit(t, co) == ensure_running(t, "await_submit", <<co, "none">>, "await_post")
CallAwait(t, co) == ensure_running(t, "await_", <<co, "none">>, "await_post")

\* The caller has its future: submit/await_submit return it, run/await_ wait
\* on it with the task timeout.
Posted(r, f) ==
  IF r.op \in {"submit", "await_submit"}
  THEN Finished(r, r.op, "ok", "none", f)
  ELSE [r EXCEPT !.pc = "result_wait", !.cur = f]

\* submit(), lines 206-227: a new ThreadFuture, callback posted with
\* call_soon_threadsafe, handle_cancel registered as done-callback.
SubmitPost(t) ==
  /\ th[t].pc = "submit_post"
  /\ futs' = Append(futs, NewFuture("submit", t))
  /\ ready' = Append(ready, <<"callback", Len(futs) + 1, 0>>)
  /\ th' = [th EXCEPT ![t] = Posted(@, Len(futs) + 1)]
  /\ UNCHANGED <<sched, workers, ntodo, stopping, driver, incb, timers, escaped,
                 start_future, stop_future>>

\* await_submit(), line 187: run_coroutine_threadsafe(coro(), loop) posts the
\* callback that creates the task and returns the ThreadFuture chained to it.
AwaitPost(t) ==
  /\ th[t].pc = "await_post"
  /\ futs' = Append(futs, NewFuture("await", t))
  /\ ready' = Append(ready, <<"rct_cb", Len(futs) + 1, 0>>)
  /\ th' = [th EXCEPT ![t] = Posted(@, Len(futs) + 1)]
  /\ UNCHANGED <<sched, workers, ntodo, stopping, driver, incb, timers, escaped,
                 start_future, stop_future>>

\* What result() gives for a settled future: the value, the stored exception
\* re-raised, or CancelledError.
ResultOf(r, fr) ==
  CASE fr.st = "value" -> Finished(r, r.op, "ok", fr.val, r.cur)
    [] fr.st = "exc" -> Finished(r, r.op, "error", fr.val, r.cur)
    [] OTHER -> Finished(r, r.op, "error", "CancelledError", r.cur)

\* run(), line 198, and await_(), line 164: result(timeout=task_timeout)
\* returns once the future is settled.
ResultReturn(t) ==
  /\ th[t].pc = "result_wait"
  /\ futs[th[t].cur].st # "pending"
  /\ th' = [th EXCEPT ![t] = ResultOf(@, futs[@.cur])]
  /\ UNCHANGED <<sched, workers, futs, loopv, start_future, stop_future>>

\* A timeout that cancels the future the caller was waiting for.
ResultTimeout_Cancels(t) ==
  /\ th[t].pc = "result_wait"
  /\ futs[th[t].cur].st = "pending"
  /\ futs' = [futs EXCEPT ![th[t].cur].st = "cancelled"]
  /\ th' = [th EXCEPT ![t] = Finished(@, @.op, "error", "TimeoutError", @.cur)]
  /\ UNCHANGED <<sched, workers, loopv, start_future, stop_future>>

\* run(), line 198, and await_(), lines 165-170: the timeout elapses while the
\* future is pending; the caller gets TimeoutError, the future is left alone.
ResultTimeout(t) ==
  /\ th[t].pc = "result_wait"
  /\ futs[th[t].cur].st = "pending"
  /\ th' = [th EXCEPT ![t] = Finished(@, @.op, "error", "TimeoutError", @.cur)]
  /\ UNCHANGED <<sched, workers, futs, loopv, start_future, stop_future>>

\* The caller cancels a pending future submit() returned (cancel() of a
\* settled future returns False and changes nothing).  ThreadFuture.cancel()
\* sets it cancelled and runs handle_cancel (lines 219-223) on the caller's
\* thread, which posts handle.cancel.
Cancel(t, f) ==
  /\ th[t].pc = "idle"
  /\ futs[f].op = "submit" /\ futs[f].by = t /\ futs[f].held
  /\ futs[f].st = "pending"
  /\ futs' = [futs EXCEPT ![f].st = "cancelled"]
  /\ ready' = Append(ready, <<"handle_cancel", f, 0>>)
  /\ UNCHANGED <<sched, workers, ntodo, stopping, driver, incb, timers, escaped,
                 start_future, stop_future, th>>

----
\* ThreadFuture settlement as the callback uses it.  Before Python 3.8
\* set_result/set_exception overwrite a future that is already settled
\* (`legacy`); since 3.8 they raise InvalidStateError.  Both builds exist.

set_result(fr, v, legacy) ==
  IF fr.st = "pending" \/ legacy
  THEN [fut |-> [fr EXCEPT !.st = "value", !.val = v], raised |-> "none"]
  ELSE [fut |-> fr, raised |-> "InvalidStateError"]

set_exception(fr, e, legacy) ==
  IF fr.st = "pending" \/ legacy
  THEN [fut |-> [fr EXCEPT !.st = "exc", !.val = e], raised |-> "none"]
  ELSE [fut |-> fr, raised |-> "InvalidStateError"]

\* aio_future_to_thread(), lines 79-84, on the asyncio future the callable
\* made: a new ThreadFuture B, chained with thread_future_chain_aio(B, F), so
\* B's settlement is what propagates, to F.
aio_future_to_thread(fr) ==
  [fr EXCEPT !.fst = "pending", !.bst = "pending", !.chain = "thread_to_aio"]

\* The callback without line 215: func's result is never set on the future.
CallbackBlock_NoSetResult(fr, w, legacy) ==
  IF fr.fn[1] = "raise"
  THEN [fut |-> [fr EXCEPT !.ran = w], raised |-> fr.fn[2]]
  ELSE [fut |-> [fr EXCEPT !.ran = w], raised |-> "none"]

\* submit.callback, lines 211-215, the block inside capture_exceptions: call
\* func on thread w; bridge a returned asyncio future; set the result.
CallbackBlock(fr, w, legacy) ==
  CASE fr.fn[1] = "raise" -> [fut |-> [fr EXCEPT !.ran = w], raised |-> fr.fn[2]]
    [] fr.fn[1] = "fut" ->
         set_result(aio_future_to_thread([fr EXCEPT !.ran = w]), "B", legacy)
    [] OTHER -> set_result([fr EXCEPT !.ran = w], fr.fn[2], legacy)

\* futures.capture_exceptions(future): an exception of the block is stored
\* in the future instead of propagating.
capture_exceptions(b, legacy) ==
  IF b.raised = "none" THEN b ELSE set_exception(b.fut, b.raised, legacy)

\* The callback without the capture_exceptions scope.
Callback_NoCapture(fr, w, legacy) == CallbackBlock(fr, w, legacy)

\* submit.callback, lines 208-215, once it has found the future not cancelled.
Callback(fr, w, legacy) ==
  capture_exceptions(CallbackBlock(fr, w, legacy), legacy)

\* The callback without the check of line 209.
FutureCancelled_Unchecked(fr) == FALSE

\* submit.callback, line 209: future.cancelled().
FutureCancelled(fr) == fr.st = "cancelled"

----
\* The worker thread and the handles it runs on the loop

\* _run_loop() creating the stop-signal only when there is none yet: a later
\* run keeps the future of the run before it.
WorkerBoot_KeepSignal(w) ==
  /\ w \in Workers /\ workers[w].pc = "boot"
  /\ workers' = [workers EXCEPT ![w].pc = "signal",
                                ![w].sig = IF stop_signal = 0 THEN "pending" ELSE @]
  /\ stop_signal' = IF stop_signal = 0 THEN w ELSE stop_signal
  /\ UNCHANGED <<asyncio_thread, closed, futs, loopv, start_future, stop_future, th>>

\* _run_loop(), lines 288-290: bind the loop to this thread and store a new
\* asyncio future in _stop_signal.
WorkerBoot(w) ==
  /\ w \in Workers /\ workers[w].pc = "boot"
  /\ workers' = [workers EXCEPT ![w].pc = "signal", ![w].sig = "pending"]
  /\ stop_signal' = w
  /\ UNCHANGED <<asyncio_thread, closed, futs, loopv, start_future, stop_future, th>>

\* _run_loop(), lines 292-299: run_until_complete(run_loop()) raises
\* RuntimeError when the loop is already running (the thread ends through
\* the finally clause); else it schedules the task's first step and drives
\* the loop.
WorkerRunLoop(w) ==
  /\ w \in Workers /\ workers[w].pc = "signal"
  /\ IF driver # 0
     THEN /\ workers' = [workers EXCEPT ![w].pc = "crashed"]
          /\ UNCHANGED <<ready, driver>>
     ELSE /\ workers' = [workers EXCEPT ![w].pc = "driving", ![w].task = "scheduled"]
          /\ ready' = Append(ready, <<"task_step", w, 0>>)
          /\ driver' = w
  /\ UNCHANGED <<sched, futs, ntodo, stopping, incb, timers, escaped,
                 start_future, stop_future, th>>

\* What running one handle changes; `add` are the handles it schedules.
Same ==
  [workers |-> workers, futs |-> futs, sf |-> start_future, pf |-> stop_future,
   add |-> <<>>, timers |-> timers, escaped |-> escaped, incb |-> 0,
   stop |-> stopping]

\* run_loop(), line 297 and the task's end: set the stop_future that is the
\* stop signal's result; the finished task schedules run_until_complete's
\* done-callback.
Ack(e, w, s) ==
  [e EXCEPT !.pf = [e.pf EXCEPT ![workers[s].sigres] = "done"],
            !.workers = [e.workers EXCEPT ![w].task = "done"],
            !.add = <<<<"ruc_cb", w, 0>>>>]

\* run_loop(), lines 293-296, the task's first step: set start_future, then
\* await self._stop_signal (an await of a settled future does not suspend).
TaskStep(w) ==
  LET e == [Same EXCEPT !.sf = [start_future EXCEPT ![workers[w].starter] = "done"]]
  IN IF workers[stop_signal].sig = "pending"
     THEN [e EXCEPT !.workers =
             [workers EXCEPT ![w].task = "awaiting", ![w].awaits = stop_signal]]
     ELSE Ack(e, w, stop_signal)

\* The tasks suspended on stop signal s.
Waiters(s) == {w \in Workers : workers[w].task = "awaiting" /\ workers[w].awaits = s}

\* stop()'s posted callback, line 146: _stop_signal.set_result(stop_future);
\* the asyncio future schedules the wake-up of the task awaiting it, or
\* raises InvalidStateError when it is already settled.
StopCb(s, t) ==
  IF workers[s].sig = "pending"
  THEN [Same EXCEPT
          !.workers = [workers EXCEPT ![s].sig = "done", ![s].sigres = t],
          !.add = IF Waiters(s) = {} THEN <<>>
                  ELSE <<<<"wakeup", CHOOSE w \in Waiters(s) : TRUE, 0>>>>]
  ELSE [Same EXCEPT !.escaped = escaped \cup {"InvalidStateError"}]

\* submit.callback, lines 208-209, as the loop runs its handle: a cancelled
\* handle is not run; a cancelled future ends the callback at once.
CallbackBegin(f) ==
  IF futs[f].hc \/ FutureCancelled(futs[f])
  THEN [Same EXCEPT !.futs = [futs EXCEPT ![f].cb = "skipped"]]
  ELSE [Same EXCEPT !.futs = [futs EXCEPT ![f].cb = "begun"], !.incb = f]

\* The outcome of the coroutine await_submit wrapped, lines 177-184.
CoroState(fn) == IF fn[1] \in {"raise", "end"} THEN "exc" ELSE "value"

\* What the coroutine of future f does.  A source's __anext__ gives the
\* source's next element, or after the last one what the source ends with:
\* StopAsyncIteration ("end") or another exception ("raise").  The source's
\* position is the number of its __anext__ coroutines that ran before.
Resolve(f) ==
  LET src == th[futs[f].by].cx.src
      pos == Cardinality({g \in Futures : futs[g].by = futs[f].by /\ futs[g].ran # 0}) + 1
  IN IF futs[f].fn[1] # "next" THEN futs[f].fn
     ELSE IF pos <= src[1] THEN <<"item", Items[pos]>>
     ELSE Work(src[2], f)

\* await_submit.coro, lines 177-184, when the awaitable has returned: a
\* result that is an asyncio future is replaced by a new ThreadFuture chained
\* to it with aio_future_chain_thread.
coro(fr) ==
  IF fr.fn[1] = "fut"
  THEN [fr EXCEPT !.fst = "pending", !.bst = "pending", !.chain = "aio_to_thread",
                  !.fn = <<"fut", "B">>]
  ELSE fr

\* A done-callback that hands the source's result over as it is.
done_Raw(f, lvl) ==
  [Same EXCEPT !.futs = [futs EXCEPT ![f].bst = IF lvl = 2 THEN @ ELSE futs[f].fst,
                                     ![f].bval = IF lvl = 2 THEN @ ELSE futs[f].fval,
                                     ![f].b2st = IF lvl = 2 THEN futs[f].f2st ELSE @,
                                     ![f].b2val = IF lvl = 2 THEN futs[f].f2val ELSE @]]

\* aio_future_chain_thread.done, lines 33-48, run by the loop once the source
\* is done: the source of chain 1 is the future the coroutine returned, the
\* one of chain 2 the future that one resolved to.  result() gives the value,
\* and a value that is a future is replaced by a new ThreadFuture chained to
\* it (lines 38-41; a done-callback added to a future already done is
\* scheduled at once); CancelledError cancels the ThreadFuture (line 45), an
\* exception is stored in it (line 47).
done(f, lvl) ==
  LET fr == futs[f]
      st == IF lvl = 2 THEN fr.f2st ELSE fr.fst
      val == IF lvl = 2 THEN fr.f2val ELSE fr.fval
      isfuture == lvl # 2 /\ st = "value" /\ val = "H"
      out == CASE st = "cancelled" -> <<"cancelled", "none">>
               [] st = "exc" -> <<"exc", val>>
               [] isfuture -> <<"value", "B2">>
               [] OTHER -> <<"value", val>>
  IN [Same EXCEPT
        !.futs = [futs EXCEPT ![f] =
                    IF lvl = 2
                    THEN [fr EXCEPT !.b2st = out[1], !.b2val = out[2]]
                    ELSE [fr EXCEPT !.bst = out[1], !.bval = out[2],
                                    !.b2st = IF isfuture THEN "pending" ELSE @,
                                    !.chain2 = IF isfuture THEN "aio_to_thread" ELSE @]],
        !.add = IF isfuture /\ fr.f2st # "pending"
                THEN <<<<"aio_done", f, 2>>>> ELSE <<>>]

\* The callback thread_future_chain_aio.done posted with
\* call_soon_threadsafe (lines 69, 71, 73), run by the loop thread:
\* aio_future.set_result / set_exception / cancel with what the ThreadFuture
\* was settled with (chain 1: B to F, chain 2: B2 to H).  set_result and
\* set_exception on an asyncio future already done raise InvalidStateError
\* out of the handle; cancel() on one returns False.
AioSet(f, lvl) ==
  LET fr == futs[f]
      st == IF lvl = 2 THEN fr.b2st ELSE fr.bst
      val == IF lvl = 2 THEN fr.b2val ELSE fr.bval
      v == IF val = "B2" THEN "H" ELSE val
      dst == IF lvl = 2 THEN fr.f2st ELSE fr.fst
  IN IF dst = "pending"
     THEN [Same EXCEPT !.futs = [futs EXCEPT ![f] =
             IF lvl = 2
             THEN [fr EXCEPT !.f2st = st, !.f2val = v, !.f2by = "loop"]
             ELSE [fr EXCEPT !.fst = st, !.fval = v, !.fby = "loop"]]]
     ELSE IF st = "cancelled" THEN Same
     ELSE [Same EXCEPT !.escaped = escaped \cup {"InvalidStateError"}]

\* Running handle h on the loop thread w.
Exec(h, w) ==
  CASE h[1] = "task_step" -> TaskStep(h[2])
    [] h[1] = "stop_cb" -> StopCb(h[2], h[3])
    [] h[1] = "wakeup" -> Ack(Same, h[2], workers[h[2]].awaits)
    [] h[1] = "ruc_cb" -> [Same EXCEPT !.stop = TRUE]
    [] h[1] = "callback" -> CallbackBegin(h[2])
    [] h[1] = "handle_cancel" -> [Same EXCEPT !.futs = [futs EXCEPT ![h[2]].hc = TRUE]]
    [] h[1] = "rct_cb" -> [Same EXCEPT !.add = <<<<"coro_step", h[2], 0>>>>]
    [] h[1] = "coro_step" ->
         [Same EXCEPT !.futs = [futs EXCEPT ![h[2]].ran = w,
                                            ![h[2]].fn = Resolve(h[2])],
                      !.timers = timers \cup {h[2]}]
    [] h[1] = "coro_wake" ->
         [Same EXCEPT !.futs = [futs EXCEPT ![h[2]] = coro(@)],
                      !.add = <<<<"chain_cb", h[2], 0>>>>]
    [] h[1] = "chain_cb" ->
         [Same EXCEPT !.futs = [futs EXCEPT ![h[2]].st = CoroState(futs[h[2]].fn),
                                            ![h[2]].val = futs[h[2]].fn[2]]]
    [] h[1] = "aio_set" -> AioSet(h[2], h[3])
    [] OTHER -> done(h[2], h[3])

\* The loop's iteration begins: the handles ready now are the ones it runs.
LoopIterate(w) ==
  /\ driver = w /\ incb = 0 /\ ntodo = 0 /\ ready # <<>>
  /\ ntodo' = Len(ready)
  /\ UNCHANGED <<sched, workers, futs, ready, stopping, driver, incb, timers,
                 escaped, start_future, stop_future, th>>

\* A sleep ends: before an iteration the loop moves the due timer to the queue.
TimerFire(w, f) ==
  /\ driver = w /\ incb = 0 /\ ntodo = 0 /\ f \in timers
  /\ timers' = timers \ {f}
  /\ ready' = Append(ready, <<"coro_wake", f, 0>>)
  /\ UNCHANGED <<sched, workers, futs, ntodo, stopping, driver, incb, escaped,
                 start_future, stop_future, th>>

\* The loop thread runs the next handle of its iteration.  After the last
\* one, a loop told to stop leaves run_until_complete.
RunHandle(w) ==
  /\ driver = w /\ incb = 0 /\ ntodo > 0
  /\ LET e == Exec(Head(ready), w)
         leave == e.stop /\ ntodo = 1 /\ e.incb = 0
     IN /\ workers' = IF leave THEN [e.workers EXCEPT ![w].pc = "leaving"] ELSE e.workers
        /\ driver' = IF leave THEN 0 ELSE w
        /\ stopping' = IF leave THEN FALSE ELSE e.stop
        /\ futs' = e.futs
        /\ start_future' = e.sf
        /\ stop_future' = e.pf
        /\ timers' = e.timers
        /\ escaped' = e.escaped
        /\ incb' = e.incb
        /\ ready' = Tail(ready) \o e.add
  /\ ntodo' = ntodo - 1
  /\ UNCHANGED <<sched, th>>

\* The loop thread runs the body of submit's callback, lines 210-215.
CallbackBody(w) ==
  /\ driver = w /\ incb # 0
  /\ \E legacy \in BOOLEAN :
       LET b == Callback(futs[incb], w, legacy)
       IN /\ futs' = [futs EXCEPT ![incb] = [b.fut EXCEPT !.cb = "done"]]
          /\ escaped' = IF b.raised = "none" THEN escaped ELSE escaped \cup {b.raised}
  /\ incb' = 0
  /\ workers' = IF stopping /\ ntodo = 0
                THEN [workers EXCEPT ![w].pc = "leaving"] ELSE workers
  /\ driver' = IF stopping /\ ntodo = 0 THEN 0 ELSE w
  /\ stopping' = IF stopping /\ ntodo = 0 THEN FALSE ELSE stopping
  /\ UNCHANGED <<sched, ready, ntodo, timers, start_future, stop_future, th>>

\* Code running on the loop settles the asyncio future F a callable returned.
\* F's done-callbacks are scheduled: aio_future_chain_thread (lines 27-51)
\* registers one, thread_future_chain_aio (lines 54-76) registers none on F.
SettleF(w, f, o) ==
  /\ driver = w /\ incb = 0
  /\ futs[f].fst = "pending"
  /\ futs' = [futs EXCEPT ![f].fst = o, ![f].fby = "loop", ![f].fval = Work(IF o = "value" THEN "ret" ELSE IF o = "exc" THEN "raise" ELSE "none", f)[2]]
  /\ ready' = IF futs[f].chain = "aio_to_thread"
              THEN Append(ready, <<"aio_done", f, 0>>) ELSE ready
  /\ UNCHANGED <<sched, workers, ntodo, stopping, driver, incb, timers, escaped,
                 start_future, stop_future, th>>

\* Code running on the loop resolves the asyncio future F to another asyncio
\* future H, still pending.
SettleFNested(w, f) ==
  /\ driver = w /\ incb = 0
  /\ futs[f].fst = "pending" /\ futs[f].chain = "aio_to_thread"
  /\ futs' = [futs EXCEPT ![f].fst = "value", ![f].fby = "loop", ![f].fval = "H",
                           ![f].f2st = "pending"]
  /\ ready' = Append(ready, <<"aio_done", f, 0>>)
  /\ UNCHANGED <<sched, workers, ntodo, stopping, driver, incb, timers, escaped,
                 start_future, stop_future, th>>

\* Code running on the loop settles H; its done-callback, if the chain to
\* its ThreadFuture is already made, is scheduled.
SettleH(w, f, o) ==
  /\ driver = w /\ incb = 0
  /\ futs[f].f2st = "pending"
  /\ futs' = [futs EXCEPT ![f].f2st = o, ![f].f2by = "loop", ![f].f2val = Work(IF o = "value" THEN "ret" ELSE IF o = "exc" THEN "raise" ELSE "none", f + 2)[2]]
  /\ ready' = IF futs[f].chain2 = "aio_to_thread"
              THEN Append(ready, <<"aio_done", f, 2>>) ELSE ready
  /\ UNCHANGED <<sched, workers, ntodo, stopping, driver, incb, timers, escaped,
                 start_future, stop_future, th>>

\* A done-callback that settles the asyncio future on the thread it runs on.
thread_future_chain_aio_direct(fs, f, lvl, t) ==
  [futs |-> [fs EXCEPT ![f].fst = IF lvl = 2 THEN @ ELSE fs[f].bst,
                       ![f].fval = IF lvl = 2 THEN @ ELSE fs[f].bval,
                       ![f].fby = IF lvl = 2 THEN @ ELSE t,
                       ![f].f2st = IF lvl = 2 THEN fs[f].b2st ELSE @,
                       ![f].f2val = IF lvl = 2 THEN fs[f].b2val ELSE @,
                       ![f].f2by = IF lvl = 2 THEN t ELSE @],
   add |-> <<>>]

\* thread_future_chain_aio.done, lines 61-74, run by thread t, the one that
\* settled the ThreadFuture (chain 1: B, chain 2: B2): the settlement of the
\* asyncio future is posted to the loop with call_soon_threadsafe.  For a
\* result that is a ThreadFuture (lines 64-67) a new asyncio future is
\* created, pending, and chained to it; a done-callback added to a future
\* already done runs at once.
thread_future_chain_aio(fs, f, lvl, t) ==
  LET nested == lvl # 2 /\ fs[f].bst = "value" /\ fs[f].bval = "B2"
  IN [futs |-> IF nested
               THEN [fs EXCEPT ![f].f2st = "pending", ![f].chain2 = "thread_to_aio"]
               ELSE fs,
      add |-> IF nested /\ fs[f].b2st # "pending"
              THEN <<<<"aio_set", f, 2>>, <<"aio_set", f, lvl>>>>
              ELSE <<<<"aio_set", f, lvl>>>>]

\* The ThreadFuture B that stands for the asyncio future of future f, as
\* thread t has it: from submit(...).result() or from run().
HasB(t, f) ==
  /\ th[t].pc = "idle"
  /\ futs[f].by = t /\ futs[f].st = "value" /\ futs[f].val = "B"
  /\ futs[f].chain = "thread_to_aio"

\* The caller settles B: set_result, set_exception or cancel.  B's
\* done-callback runs on the caller's thread.
SettleB(t, f, o) ==
  /\ HasB(t, f) /\ futs[f].bst = "pending"
  /\ LET d == thread_future_chain_aio(
                 [futs EXCEPT ![f].bst = o, ![f].bval = Work(IF o = "value" THEN "ret" ELSE IF o = "exc" THEN "raise" ELSE "none", f)[2]],
                 f, 1, t)
     IN futs' = d.futs /\ ready' = ready \o d.add
  /\ UNCHANGED <<sched, workers, ntodo, stopping, driver, incb, timers, escaped,
                 start_future, stop_future, th>>

\* The caller sets another ThreadFuture B2 as B's result; B2 is pending or
\* was settled with outcome o before.
SettleBNested(t, f, o) ==
  /\ HasB(t, f) /\ futs[f].bst = "pending"
  /\ LET d == thread_future_chain_aio(
                 [futs EXCEPT ![f].bst = "value", ![f].bval = "B2", ![f].b2st = o,
                              ![f].b2val = Work(IF o = "value" THEN "ret" ELSE IF o = "exc" THEN "raise" ELSE "none", f + 2)[2]],
                 f, 1, t)
     IN futs' = d.futs /\ ready' = ready \o d.add
  /\ UNCHANGED <<sched, workers, ntodo, stopping, driver, incb, timers, escaped,
                 start_future, stop_future, th>>

\* The caller settles B2 after it was made B's result.
SettleB2(t, f, o) ==
  /\ HasB(t, f) /\ futs[f].b2st = "pending" /\ futs[f].chain2 = "thread_to_aio"
  /\ LET d == thread_future_chain_aio(
                 [futs EXCEPT ![f].b2st = o, ![f].b2val = Work(IF o = "value" THEN "ret" ELSE IF o = "exc" THEN "raise" ELSE "none", f + 2)[2]],
                 f, 2, t)
     IN futs' = d.futs /\ ready' = ready \o d.add
  /\ UNCHANGED <<sched, workers, ntodo, stopping, driver, incb, timers, escaped,
                 start_future, stop_future, th>>

\* _run_loop(), lines 301-306: the loop is finished; _asyncio_thread = None
\* and the thread ends.
WorkerExit(w) ==
  /\ w \in Workers /\ workers[w].pc = "leaving"
  /\ workers' = [workers EXCEPT ![w].pc = "exited"]
  /\ asyncio_thread' = 0
  /\ UNCHANGED <<stop_signal, closed, futs, loopv, start_future, stop_future, th>>

----
\* Scoped resources: ctx and async_ctx

\* What a resource's enter does (return a value, raise) and what its exit
\* does (return true: suppress, return false, raise).
EnterKinds == {"ret", "raise"}
ExitKinds == {"suppress", "pass", "raise"}
\* How the block of the with statement ends: normally, with an exception
\* that is an Exception, or with one that is only a BaseException
\* (KeyboardInterrupt, SystemExit, GeneratorExit; CancelledError since
\* Python 3.8).
BlockEnds == {"normal", "Exception", "BaseException"}

\* The entry of await_ (lines 164, 186) or run (lines 198, 204) called from
\* inside ctx, async_ctx or async_iter: _ensure_running() first.
InnerCall(r, op, kind) ==
  [r EXCEPT !.op = op, !.fn = <<kind, "none">>, !.last = NoLast,
            !.pc = IF asyncio_thread # 0
                   THEN (IF op = "run" THEN "submit_post" ELSE "await_post")
                   ELSE "start_check"]

Frame(kind, en, ex) ==
  [NoFrame EXCEPT !.kind = kind, !.phase = "enter", !.enter = en, !.exit = ex]

\* The with statement (the iteration) ends for the caller with outcome `out`.
Leave(r, out) ==
  [r EXCEPT !.pc = "idle", !.op = "none", !.cur = 0,
            !.cx.phase = "done", !.cx.out = out]

\* async_ctx(), lines 232-236: run_coroutine_threadsafe(aenter(), loop) posts
\* the callback that creates the task; there is no _ensure_running() here,
\* and the caller then waits in result() without a timeout.
CallAsyncCtx(t, en, ex) ==
  /\ CanCall(t, "async_ctx")
  /\ futs' = Append(futs, [NewFuture("await", t) EXCEPT
                             !.fn = Work(en, Len(futs) + 1), !.held = FALSE])
  /\ ready' = Append(ready, <<"rct_cb", Len(futs) + 1, 0>>)
  /\ th' = [th EXCEPT ![t] =
              [Begun(@, "async_ctx", <<en, "none">>) EXCEPT
                 !.pc = "enter_wait", !.cur = Len(futs) + 1,
                 !.cx = Frame("async_ctx", en, ex)]]
  /\ UNCHANGED <<sched, workers, ntodo, stopping, driver, incb, timers, escaped,
                 start_future, stop_future>>

\* async_ctx(), lines 236-241: result() returns once enter's future is
\* settled; its value goes to the block, its exception to the caller.
AsyncCtxEnter(t) ==
  /\ th[t].pc = "enter_wait"
  /\ futs[th[t].cur].st # "pending"
  /\ th' = [th EXCEPT ![t] =
              IF futs[@.cur].st = "value"
              THEN [@ EXCEPT !.pc = "block", !.cx.entered = TRUE, !.cx.phase = "block"]
              ELSE Leave(@, futs[@.cur].val)]
  /\ UNCHANGED <<sched, workers, futs, loopv, start_future, stop_future>>

\* ctx(), lines 251-254: result = self.run(ctx_enter).
CallCtx(t, en, ex) ==
  /\ CanCall(t, "ctx")
  /\ th' = [th EXCEPT ![t] =
              [InnerCall(Begun(@, "ctx", <<en, "none">>), "run", en) EXCEPT
                 !.cx = Frame("ctx", en, ex)]]
  /\ UNCHANGED <<sched, workers, futs, loopv, start_future, stop_future>>

\* ctx(), lines 254-256: run(ctx_enter) has returned or raised.
CtxEnter(t) ==
  /\ th[t].pc = "resume" /\ th[t].cx.phase = "enter"
  /\ th' = [th EXCEPT ![t] =
              IF @.last.out = "ok"
              THEN [@ EXCEPT !.pc = "block", !.cx.entered = TRUE, !.cx.phase = "block"]
              ELSE Leave(@, @.last.val)]
  /\ UNCHANGED <<sched, workers, futs, loopv, start_future, stop_future>>

\* The block ends and the generator resumes at its yield, lines 240-246 and
\* 255-261: `except Exception` calls exit with the exception information,
\* `else` calls it with None; an exception that is no Exception passes
\* through both and leaves the generator.
Block(t, b) ==
  /\ th[t].pc = "block"
  /\ th' = [th EXCEPT ![t] =
              IF b = "BaseException"
              THEN Leave([@ EXCEPT !.cx.block = b], "BaseException")
              ELSE [InnerCall(@, IF @.cx.kind = "ctx" THEN "run" ELSE "await_",
                              @.cx.exit) EXCEPT
                      !.cx.block = b, !.cx.phase = "exit",
                      !.cx.exits = @ + 1,
                      !.cx.info = IF b = "Exception" THEN "Exception" ELSE "None"]]
  /\ UNCHANGED <<sched, workers, futs, loopv, start_future, stop_future>>

\* What the caller of the with statement gets once exit has returned or
\* raised, lines 243-246 and 258-261: exit's own exception (or the timeout
\* of the wait for it); the block's exception unless exit returned true.
ExitOutcome(r) ==
  CASE r.last.out = "error" -> r.last.val
    [] r.cx.block = "Exception" /\ r.last.val # "True" -> "Exception"
    [] OTHER -> "ok"

CtxExit(t) ==
  /\ th[t].pc = "resume" /\ th[t].cx.phase = "exit"
  /\ th' = [th EXCEPT ![t] = Leave(@, ExitOutcome(@))]
  /\ UNCHANGED <<sched, workers, futs, loopv, start_future, stop_future>>

----
\* Iteration: async_iter

\* How a source ends after its last element.
SourceEnds == {"end", "raise"}

\* async_iter(), lines 265-269, first pass: the iterator, then
\* await_(iterator.__anext__()) for the first element.
CallAsyncIter(t, n, e) ==
  /\ CanCall(t, "async_iter")
  /\ th' = [th EXCEPT ![t] =
              [InnerCall(Begun(@, "async_iter", <<"next", "none">>), "await_", "next")
                 EXCEPT !.cx = [NoFrame EXCEPT !.kind = "iter", !.phase = "next",
                                               !.src = <<n, e>>, !.asked = 1]]]
  /\ UNCHANGED <<sched, workers, futs, loopv, start_future, stop_future>>

\* async_iter without the except clause of lines 270-271.
IterNext_NoCatch(t) ==
  /\ th[t].pc = "resume" /\ th[t].cx.phase = "next"
  /\ th' = [th EXCEPT ![t] =
              IF @.last.out = "ok"
              THEN [InnerCall(@, "await_", "next") EXCEPT
                      !.cx.got = Append(@, th[t].last.val), !.cx.asked = @ + 1]
              ELSE Leave(@, @.last.val)]
  /\ UNCHANGED <<sched, workers, futs, loopv, start_future, stop_future>>

\* async_iter(), lines 267-273: await_ returned an element, which is yielded
\* and the consumer asks for the next; or it raised StopAsyncIteration, which
\* ends the iteration; or it raised something else, which the caller gets.
IterNext(t) ==
  /\ th[t].pc = "resume" /\ th[t].cx.phase = "next"
  /\ th' = [th EXCEPT ![t] =
              CASE @.last.out = "ok" ->
                     [InnerCall(@, "await_", "next") EXCEPT
                        !.cx.got = Append(@, th[t].last.val), !.cx.asked = @ + 1]
                [] @.last.val = "StopAsyncIteration" -> Leave(@, "ok")
                [] OTHER -> Leave(@, @.last.val)]
  /\ UNCHANGED <<sched, workers, futs, loopv, start_future, stop_future>>

----
\* The program

LifeCalls(t) ==
  \/ CallStart(t)
  \/ CallEnter(t)
  \/ CallStop(t)
  \/ CallExit(t)
  \/ CallClose(t)

WorkCallsOf(t) ==
  \/ \E fn \in Plain : CallSubmit(t, fn)
  \/ \E fn \in Plain : CallRun(t, fn)
  \/ \E co \in Coros : CallAwaitSubmit(t, co)
  \/ \E co \in Coros : CallAwait(t, co)
  \/ \E f \in Futures : Cancel(t, f)

\* The steps inside start().
StartSteps(t) ==
  \/ StartCheck(t)
  \/ StartCreate(t)
  \/ StartReturn(t)

\* The steps inside stop() and close().
StopSteps(t) ==
  \/ CloseStop(t)
  \/ StopPost(t)
  \/ StopWait(t)
  \/ StopJoin(t)

\* The steps inside submit, run, await_submit and await_.
WorkSteps(t) ==
  \/ SubmitPost(t)
  \/ AwaitPost(t)
  \/ ResultReturn(t)
  \/ ResultTimeout(t)

\* A worker thread's own steps.
LoopSteps(w) ==
  \/ WorkerBoot(w)
  \/ WorkerRunLoop(w)
  \/ LoopIterate(w)
  \/ RunHandle(w)
  \/ CallbackBody(w)

\* What happens on the loop besides: timers fire, asyncio futures get settled.
TimerEvents(w) == \E f \in Futures : TimerFire(w, f)
FutureEvents(w) == \E f \in Futures, o \in Outcomes : SettleF(w, f, o)

\* The lifecycle calls, and work that returns a value.
Calls(t) ==
  \/ LifeCalls(t)
  \/ CallSubmit(t, "ret")
  \/ CallRun(t, "ret")

Steps(t) ==
  \/ StartSteps(t)
  \/ StopSteps(t)
  \/ SubmitPost(t)
  \/ ResultReturn(t)
  \/ ResultTimeout(t)

Next ==
  \/ \E t \in Callers : Calls(t) \/ Steps(t)
  \/ \E w \in ThreadIds : LoopSteps(w) \/ WorkerExit(w)

NextWork ==
  \/ \E t \in Callers : WorkCallsOf(t) \/ StartSteps(t) \/ WorkSteps(t)
  \/ \E w \in ThreadIds : LoopSteps(w) \/ TimerEvents(w)

NextBridge ==
  \/ \E t \in Callers :
       \/ CallSubmit(t, "fut")
       \/ CallRun(t, "fut")
       \/ StartSteps(t)
       \/ SubmitPost(t)
       \/ ResultReturn(t)
       \/ ResultTimeout(t)
  \/ \E w \in ThreadIds : LoopSteps(w) \/ FutureEvents(w)

ConcCalls(t) ==
  \/ CallStart(t)
  \/ CallStop(t)
  \/ CallClose(t)
  \/ CallSubmit(t, "ret")

ConcSteps(t) ==
  \/ StartSteps(t)
  \/ StopSteps(t)
  \/ SubmitPost(t)

NextConc ==
  \/ \E t \in Callers : ConcCalls(t) \/ ConcSteps(t)
  \/ \E w \in ThreadIds : LoopSteps(w) \/ WorkerExit(w)

\* With no work submitted the loop runs only the handles of start and stop.
NextStop ==
  \/ CallStart("c1")
  \/ \E t \in Callers :
       \/ CallStop(t)
       \/ StartCreate(t)
       \/ StartReturn(t)
       \/ StopPost(t)
       \/ StopWait(t)
       \/ StopJoin(t)
  \/ \E w \in ThreadIds :
       \/ WorkerBoot(w)
       \/ WorkerRunLoop(w)
       \/ LoopIterate(w)
       \/ RunHandle(w)
       \/ WorkerExit(w)

\* A caller thread entering the scheduler and using resources through it.
NextCtx ==
  \/ \E t \in Callers :
       \/ CallEnter(t)
       \/ \E en \in EnterKinds, ex \in ExitKinds : CallCtx(t, en, ex)
       \/ \E en \in EnterKinds, ex \in ExitKinds : CallAsyncCtx(t, en, ex)
       \/ AsyncCtxEnter(t)
       \/ CtxEnter(t)
       \/ \E b \in BlockEnds : Block(t, b)
       \/ CtxExit(t)
       \/ StartSteps(t)
       \/ WorkSteps(t)
  \/ \E w \in ThreadIds : LoopSteps(w) \/ TimerEvents(w)

\* A caller thread iterating a source; the loop runs only coroutines.
NextIter ==
  \/ \E t \in Callers :
       \/ \E n \in 0..MaxItems, e \in SourceEnds : CallAsyncIter(t, n, e)
       \/ IterNext(t)
       \/ StartSteps(t)
       \/ AwaitPost(t)
       \/ ResultReturn(t)
       \/ ResultTimeout(t)
  \/ \E w \in ThreadIds :
       \/ WorkerBoot(w)
       \/ WorkerRunLoop(w)
       \/ LoopIterate(w)
       \/ RunHandle(w)
       \/ TimerEvents(w)

\* One caller thread making lifecycle calls and submitting work.
\* One caller awaits coroutines that return asyncio futures.
NextChain ==
  \/ \E t \in Callers :
       \/ CallAwaitSubmit(t, "fut")
       \/ CallAwait(t, "fut")
       \/ StartSteps(t)
       \/ AwaitPost(t)
       \/ ResultReturn(t)
       \/ ResultTimeout(t)
  \/ \E w \in ThreadIds :
       \/ WorkerBoot(w)
       \/ WorkerRunLoop(w)
       \/ LoopIterate(w)
       \/ RunHandle(w)
       \/ TimerEvents(w)
       \/ FutureEvents(w)
       \/ \E f \in Futures : SettleFNested(w, f)
       \/ \E f \in Futures, o \in Outcomes : SettleH(w, f, o)

\* One caller submits callables that return asyncio futures and settles the
\* ThreadFutures it gets for them, while code on the loop may settle the
\* asyncio futures itself.
NextMarshal ==
  \/ \E t \in Callers :
       \/ CallSubmit(t, "fut")
       \/ CallRun(t, "fut")
       \/ StartSteps(t)
       \/ SubmitPost(t)
       \/ ResultReturn(t)
       \/ ResultTimeout(t)
       \/ \E f \in Futures, o \in Outcomes : SettleB(t, f, o)
       \/ \E f \in Futures, o \in Outcomes \cup {"pending"} : SettleBNested(t, f, o)
       \/ \E f \in Futures, o \in Outcomes : SettleB2(t, f, o)
  \/ \E w \in ThreadIds : LoopSteps(w) \/ FutureEvents(w)

Spec == Init /\ [][Next]_vars

\* One caller thread submitting work that returns or raises, awaiting
\* coroutines and cancelling, on a scheduler nobody stops.
SpecWork == InitWork /\ [][NextWork]_vars

\* One caller thread submitting callables that return asyncio futures, which
\* code on the loop settles.
SpecBridge == InitBridge /\ [][NextBridge]_vars

\* Two caller threads calling concurrently.
SpecConc == InitConc /\ [][NextConc]_vars

\* One caller thread using resources through ctx and async_ctx.
SpecCtx == InitCtx /\ [][NextCtx]_vars

\* One caller thread iterating one source through async_iter.
SpecIter == InitIter /\ [][NextIter]_vars

\* A caller thread starting and stopping while another thread stops.
SpecChain == InitChain /\ [][NextChain]_vars
SpecMarshal == InitMarshal /\ [][NextMarshal]_vars
SpecStop == InitStop /\ [][NextStop]_vars

----
\* Properties

\* The loop is running and has nothing left to do: no handle queued, no
\* callback in progress, no timer pending, no caller about to post.
Quiet ==
  /\ driver # 0
  /\ ready = <<>>
  /\ incb = 0
  /\ timers = {}
  /\ \A t \in Callers : th[t].pc \in {"idle", "result_wait"}

\* C1, parts.  Work that returns a value: once settled, its future holds
\* exactly that value, unless the caller cancelled it.
ValueStored ==
  \A f \in Futures :
    futs[f].fn[1] = "ret" /\ futs[f].st # "pending" =>
      \/ futs[f].st = "value" /\ futs[f].val = Vals[f]
      \/ futs[f].st = "cancelled" /\ futs[f].op = "submit"

\* The work ran on a worker thread, and before its future got the value.
RanOnLoop ==
  \A f \in Futures :
    /\ futs[f].ran \in Workers \cup {0}
    /\ futs[f].st \in {"value", "exc"} => futs[f].ran \in Workers

\* When the loop has nothing left to do, the future is settled.
ValueSettled ==
  Quiet => \A f \in Futures : futs[f].fn[1] = "ret" => futs[f].st # "pending"

\* run(fn) and await_(task) return the value, or time out.
ValueReturned ==
  \A t \in Callers :
    LET l == th[t].last
    IN l.op \in {"run", "await_"} /\ futs[l.fut].fn[1] = "ret" =>
         \/ l.out = "ok" /\ l.val = Vals[l.fut]
         \/ l.out = "error" /\ l.val = "TimeoutError"

\* C1: submit(fn) with fn returning v, and await_submit(task) with task
\* suspending and then returning v, give a future that ends settled with
\* exactly v; run and await_ return v unless they time out; the work runs
\* on the loop thread.
C1_FutureGetsValue == ValueStored /\ RanOnLoop /\ ValueSettled /\ ValueReturned

\* A submitted callable and an awaited coroutine have both delivered their values.
C1_Witness ==
  /\ \E f \in Futures :
       futs[f].op = "submit" /\ futs[f].st = "value" /\ futs[f].val = Vals[f]
  /\ \E f \in Futures :
       futs[f].op = "await" /\ futs[f].st = "value" /\ futs[f].val = Vals[f]

\* C2, parts.  Work that raises: once settled, its future holds exactly
\* that exception (unless the caller cancelled it), and run re-raises it.
ExceptionStored ==
  /\ \A f \in Futures :
       futs[f].op = "submit" /\ futs[f].fn[1] = "raise" /\ futs[f].st # "pending" =>
         \/ futs[f].st = "exc" /\ futs[f].val = Excs[f]
         \/ futs[f].st = "cancelled" /\ futs[f].held
  /\ \A t \in Callers :
       LET l == th[t].last
       IN l.op = "run" /\ futs[l.fut].fn[1] = "raise" =>
            l.out = "error" /\ l.val \in {Excs[l.fut], "TimeoutError"}

\* No exception of a submitted callable leaves the callback into the loop.
NothingEscapes == \A k \in 1..Len(Excs) : Excs[k] \notin escaped

\* The thread that ran a callback goes on driving the loop.
WorkerStays ==
  \A f \in Futures :
    futs[f].op = "submit" /\ futs[f].ran # 0 =>
      driver = futs[f].ran /\ workers[driver].pc = "driving"

\* Every submit is executed and settled, also after one that raised.
AllSettled ==
  Quiet => \A f \in Futures : futs[f].op = "submit" => futs[f].st # "pending"

\* C2: an exception e raised by the callable given to submit is stored in the
\* returned future and re-raised by result(); it never escapes into the loop
\* thread's own control flow, the worker goes on running, and every later
\* submit is still executed and settled.
C2_ExceptionCaptured == ExceptionStored /\ NothingEscapes /\ WorkerStays /\ AllSettled

\* A callable raised, its future holds the exception, and a callable
\* submitted after it ran and delivered its value.
C2_Witness ==
  \E f, g \in Futures :
    /\ f < g
    /\ futs[f].op = "submit" /\ futs[f].st = "exc" /\ futs[f].val = Excs[f]
    /\ futs[g].op = "submit" /\ futs[g].st = "value" /\ futs[g].cb = "done"

\* A future cancelled while its callback has not begun.
CancelledEarly(fr) == fr.st = "cancelled" /\ fr.cb \in {"queued", "skipped"}

\* C3: when the caller cancels the future submit returned before the loop
\* thread begins the posted callback, the callable is never invoked and the
\* future stays cancelled, whatever the order of the cancel, the posted
\* handle.cancel and the loop's dispatch of the callback.
C3_CancelPreventsCall ==
  [][\A f \in Futures :
       CancelledEarly(futs[f]) =>
         futs[f].ran = 0 /\ CancelledEarly(futs'[f]) /\ futs'[f].ran = 0]_vars

\* The loop dispatched the callback of a cancelled future before the posted
\* handle.cancel ran, and the callable was not invoked.
C3_Witness ==
  \E f \in Futures :
    /\ futs[f].st = "cancelled" /\ futs[f].cb = "skipped" /\ futs[f].ran = 0
    /\ ~futs[f].hc
    /\ \E i \in 1..Len(ready) : ready[i] = <<"handle_cancel", f, 0>>

\* C4: when the callable given to submit returns an asyncio future F, the
\* caller gets a blocking future in F's place, and once F is settled on the
\* loop that blocking future ends settled with the same outcome.
C4_InnerFutureBridged ==
  \A f \in Futures :
    /\ futs[f].fn[1] = "fut" /\ futs[f].st = "value" => futs[f].val = "B"
    /\ Quiet /\ futs[f].fst \notin {"none", "pending"} =>
         futs[f].bst = futs[f].fst /\ futs[f].bval = futs[f].fval

\* The caller is between calls and its last call was `ops` ending `out`.
Returned(t, ops, out) ==
  th[t].pc = "idle" /\ th[t].last.op \in ops /\ th[t].last.out = out

\* C5, parts.  When stop() has returned, the scheduler is not running and
\* every worker thread start() ever created has ended.
StopTerminates ==
  \A t \in Callers :
    Returned(t, {"stop", "exit"}, "ok") =>
      /\ asyncio_thread = 0
      /\ driver = 0
      /\ \A w \in Workers : workers[w].pc = "exited"

\* start() fails only on a scheduler that is running, so never after stop().
StartFailsOnlyRunning ==
  \A t \in Callers :
    Returned(t, {"start"}, "error") =>
      asyncio_thread # 0 /\ th[t].last.val = "AlreadyRunning"

\* Between calls a running scheduler is in its newest run: the newest worker
\* drives the loop, _stop_signal is the future that worker created, it is
\* pending and the worker's task awaits it; the stop-signals of all earlier
\* runs are settled and their workers have ended.
FreshRun ==
  (\A t \in Callers : th[t].pc = "idle") /\ asyncio_thread # 0 =>
      /\ asyncio_thread = Len(workers)
      /\ driver = asyncio_thread
      /\ workers[asyncio_thread].pc = "driving"
      /\ stop_signal = asyncio_thread
      /\ workers[stop_signal].sig = "pending"
      /\ workers[asyncio_thread].task = "awaiting"
      /\ workers[asyncio_thread].awaits = stop_signal
      /\ \A w \in 1..(asyncio_thread - 1) :
           workers[w].pc = "exited" /\ workers[w].sig = "done"

\* start() and __enter__ that succeeded leave the scheduler running.
StartedRuns ==
  \A t \in Callers :
    Returned(t, {"start", "enter"}, "ok") => asyncio_thread # 0

\* Work is executed by the worker of the run it was submitted in, and when
\* stop() has returned all of it is settled with its value.
WorkOfRunDone ==
  \A t \in Callers :
    /\ Returned(t, {"submit", "run"}, "ok") /\ asyncio_thread # 0 =>
         futs[th[t].last.fut].ran \in {0, asyncio_thread}
    /\ Returned(t, {"run"}, "ok") => th[t].last.val = Vals[th[t].last.fut]
    /\ Returned(t, {"stop", "exit"}, "ok") =>
         \A f \in Futures :
           futs[f].st = "value" /\ futs[f].val = Vals[f] /\ futs[f].ran \in Workers

\* C5: on a scheduler that is not closed, over any number of stop/start
\* cycles: after stop() has returned start() succeeds and the scheduler is
\* running, the new run has its own pending stop-signal (never the settled
\* one of an earlier run), work submitted in the new run is executed and
\* settled with its value, and a later stop() ends the new worker.
C5_RestartAfterStop ==
  ~closed =>
    /\ StopTerminates
    /\ StartFailsOnlyRunning
    /\ StartedRuns
    /\ FreshRun
    /\ WorkOfRunDone

\* Two runs were stopped, and work submitted in the second run was executed
\* by the second worker and delivered its value.
C5_Witness ==
  /\ ~closed
  /\ Returned("c1", {"stop", "exit"}, "ok")
  /\ Len(workers) >= 2
  /\ workers[2].pc = "exited" /\ workers[2].sig = "done"
  /\ \E f \in Futures : futs[f].ran = 2 /\ futs[f].st = "value"

\* C6: after close() has returned, start() fails with an error and creates
\* no worker thread: no start() call gets past its check on a closed
\* scheduler, none has succeeded, and the scheduler is not running.
C6_StartAfterCloseFails ==
  closed =>
    \A t \in Callers :
      /\ th[t].op # "start"
      /\ th[t].last.op = "start" => th[t].last.out = "error"

\* _closed is only ever set.
ClosedStays == [][closed => closed']_vars

\* C7: once is_closed() is true the scheduler is never running again, and
\* submit, run and scoped entry on a closed scheduler end at once with an
\* error instead of starting a worker.
C7_ClosedIsTerminal ==
  closed =>
    /\ asyncio_thread = 0
    /\ \A t \in Callers :
         /\ th[t].op \notin {"submit", "run", "enter"}
         /\ th[t].last.op \in {"submit", "run", "enter"} => th[t].last.out = "error"

\* The caller begins a start() call in this step.
StartCalled(t) ==
  /\ th[t].pc = "idle"
  /\ th'[t].life = th[t].life - 1
  /\ th'[t].op = "start" \/ th'[t].last.op = "start"

\* C8: start() called while the scheduler is running ends at once with the
\* "Already running" error and changes nothing: the worker thread, the
\* loop and what it has queued, and the stop-signal stay as they are and no
\* thread is created.
C8_StartWhileRunningFails ==
  [][\A t \in Callers :
       StartCalled(t) /\ asyncio_thread # 0 =>
         /\ th'[t].pc = "idle"
         /\ th'[t].last = [op |-> "start", out |-> "error",
                           val |-> "AlreadyRunning", fut |-> 0]
         /\ UNCHANGED <<sched, workers, futs, loopv, start_future, stop_future>>]_vars

\* start() has just failed on a scheduler whose worker is driving the loop.
C8_Witness ==
  /\ Returned("c1", {"start"}, "error")
  /\ th["c1"].last.val = "AlreadyRunning"
  /\ asyncio_thread # 0
  /\ workers[asyncio_thread].pc = "driving"
  /\ Len(workers) = 1

\* The worker of the current run, as start() leaves it: it drives the loop,
\* it created the stop-signal now in _stop_signal, that future is pending,
\* and its top-level task has begun and awaits it.
Ready(w) ==
  /\ w \in Workers
  /\ workers[w].pc = "driving" /\ driver = w
  /\ stop_signal = w /\ workers[w].sig = "pending"
  /\ workers[w].task = "awaiting" /\ workers[w].awaits = w

\* Positions inside start() and inside stop().
InStart == {"start_check", "start_create", "start_wait"}
InStop == {"close_stop", "stop_post", "stop_wait", "stop_join"}

\* C9, parts.  start() returns (start_future is set) only when the worker is ready.
StartedMeansReady ==
  \A t \in Callers :
    th[t].pc = "start_wait" /\ start_future[t] = "done" => Ready(asyncio_thread)

\* For the thread that called start(): from its return until a stop, the
\* stop-signal exists, is pending and is the one of the current run.
SignalWhileRunning ==
  \A t \in Callers :
    /\ th[t].pc \notin InStart \cup InStop
    /\ \E w \in Workers : workers[w].starter = t
    /\ asyncio_thread # 0
    => Ready(asyncio_thread)

\* start() eventually returns.
StartReturns ==
  \A t \in Callers : th[t].pc = "start_wait" ~> th[t].pc # "start_wait"

\* C9: start() returns only after the worker thread has bound the loop,
\* created this run's stop-signal and begun the top-level task; from then
\* until a stop the stop-signal exists, is pending and belongs to the
\* current run; and start() eventually returns.
C9_StartHandshake == []StartedMeansReady /\ []SignalWhileRunning /\ StartReturns

\* start() is about to return: start_future is set and the worker is ready.
C9_Witness ==
  /\ th["c1"].pc = "start_wait" /\ th["c1"].op = "start"
  /\ start_future["c1"] = "done"
  /\ Ready(asyncio_thread)

\* C10: every stop() call of a caller thread eventually returns, whatever
\* other caller threads do at the same time.
C10_StopReturns ==
  \A t \in Callers :
    (th[t].op = "stop" /\ th[t].pc \in InStop) ~> th[t].pc = "idle"

\* Threads get to run: a caller's enabled step and a worker's enabled step
\* are eventually taken.
Fairness ==
  /\ \A t \in Callers : WF_vars(Steps(t))
  /\ \A w \in ThreadIds : WF_vars(LoopSteps(w) \/ WorkerExit(w))

\* Spec and SpecStop with threads that get to run.
FairSpec == Spec /\ Fairness
FairSpecStop == SpecStop /\ Fairness

\* The worker threads that have not ended.
Alive == {w \in Workers : ~Terminated(w)}

\* C11: whatever caller threads call concurrently, the scheduler has at most
\* one worker thread, and the thread driving the loop is the one in
\* _asyncio_thread.
C11_OneWorker ==
  /\ Cardinality(Alive) <= 1
  /\ driver # 0 => driver = asyncio_thread

\* The exceptions work can raise, as a set.
Raised == {Excs[k] : k \in 1..Len(Excs)}

\* exit is called at most once, only after enter succeeded, and with the
\* block's exception information.
ExitAfterEnter(c) ==
  /\ c.exits <= 1
  /\ c.exits = 1 => c.entered /\ c.block \in {"normal", "Exception"}
  /\ c.exits = 1 => c.info = (IF c.block = "normal" THEN "None" ELSE c.block)
  /\ ~c.entered => c.block = "none"

\* When the statement is over, every successful enter had its exit.
ExitedOnce(c) == c.phase = "done" /\ c.entered => c.exits = 1

\* What the caller gets when the statement is over: enter's exception when
\* enter failed; exit's exception when exit raised; the block's exception
\* exactly when exit did not report suppression; a timeout of a wait aside.
CallerGets(c) ==
  c.phase = "done" /\ c.exits = ( IF c.entered THEN 1 ELSE 0 ) =>
    \/ c.out = "TimeoutError"
    \/ ~c.entered /\ c.enter = "raise" /\ c.out \in Raised
    \/ c.entered /\ c.exit = "raise" /\ c.out \in Raised
    \/ c.entered /\ c.exit = "suppress" /\ c.out = "ok"
    \/ c.entered /\ c.exit = "pass" /\ c.out = (IF c.block = "normal" THEN "ok" ELSE c.block)

\* C12: async_ctx awaits the resource's exit exactly once for every
\* successful enter and only after it, without exception information when
\* the block ended normally and with the block's exception otherwise; the
\* block's exception is re-raised exactly when exit does not report
\* suppression, and an exception of exit reaches the caller.
C12_AsyncCtxExit ==
  \A t \in Callers :
    th[t].cx.kind = "async_ctx" =>
      ExitAfterEnter(th[t].cx) /\ ExitedOnce(th[t].cx) /\ CallerGets(th[t].cx)

\* The parts of C12 that do not depend on how the block raised.
AsyncCtxOtherwise ==
  \A t \in Callers :
    th[t].cx.kind = "async_ctx" => ExitAfterEnter(th[t].cx) /\ CallerGets(th[t].cx)

\* C13: ctx runs enter and exit through run(): when enter raises, the caller
\* gets the exception, the block is not executed and exit is not called;
\* when enter succeeds, exit is called exactly once, with the block's
\* exception information when the block raised, and the block's exception
\* is re-raised unless exit reports suppression.
C13_CtxExit ==
  \A t \in Callers :
    th[t].cx.kind = "ctx" =>
      /\ ExitAfterEnter(th[t].cx) /\ ExitedOnce(th[t].cx) /\ CallerGets(th[t].cx)
      /\ \A f \in Futures : futs[f].by = t /\ futs[f].ran # 0 => futs[f].ran \in Workers

\* The parts of C13 that do not depend on how the block raised.
CtxOtherwise ==
  \A t \in Callers :
    th[t].cx.kind = "ctx" => ExitAfterEnter(th[t].cx) /\ CallerGets(th[t].cx)

\* The first n elements of the source.
Produced(n) == [i \in 1..n |-> Items[i]]

\* C14, parts.  What async_iter has yielded is always the beginning of the
\* source's sequence, in order, one await_ of __anext__ per element and at
\* most one more for the end.
YieldsInOrder(c) ==
  /\ Len(c.got) <= c.src[1]
  /\ c.got = Produced(Len(c.got))
  /\ c.asked <= c.src[1] + 1
  /\ c.phase = "next" => c.asked = Len(c.got) + 1

\* The iteration ends cleanly exactly at the end-of-sequence signal, after
\* all elements and without a further request; any other exception of
\* __anext__ (and the timeout of a wait) goes to the caller.
EndsCleanly(c) ==
  c.phase = "done" =>
    \/ c.out = "TimeoutError"
    \/ c.src[2] = "end" /\ c.out = "ok"
       /\ c.got = Produced(c.src[1]) /\ c.asked = c.src[1] + 1
    \/ c.src[2] = "raise" /\ c.out \in Raised
       /\ c.got = Produced(c.src[1]) /\ c.asked = c.src[1] + 1

\* C14: async_iter over a source producing e1..en yields exactly e1..en in
\* order, each by one await_ of the source's next on the loop, and ends
\* cleanly at the end-of-sequence signal without a further request; another
\* exception raised by next goes to the caller.
C14_IterYieldsAll ==
  \A t \in Callers :
    th[t].cx.kind = "iter" =>
      /\ YieldsInOrder(th[t].cx) /\ EndsCleanly(th[t].cx)
      /\ Cardinality({f \in Futures : futs[f].by = t}) \in {th[t].cx.asked - 1, th[t].cx.asked}
      /\ \A f \in Futures : futs[f].ran \in Workers \cup {0}

\* A source of MaxItems elements was iterated to its end: all elements were
\* yielded and the iteration ended without an exception.
C14_Witness ==
  /\ th["c1"].cx.kind = "iter" /\ th["c1"].cx.phase = "done"
  /\ th["c1"].cx.src = <<MaxItems, "end">>
  /\ th["c1"].cx.out = "ok"
  /\ Len(th["c1"].cx.got) = MaxItems

\* The caller thread waits for the result of work it gave to the loop.
WaitsForLoop(t) ==
  /\ th[t].pc \in {"result_wait", "enter_wait"}
  /\ futs[th[t].cur].st = "pending"

\* C15: every wait of a caller thread for a loop-side result in run,
\* await_, ctx, async_ctx and async_iter is bounded by the timeout: while the
\* result is pending the wait can end with the timeout error, so a loop
\* that is stalled or not driven cannot block the caller forever.
C15_WaitsBounded ==
  \A t \in Callers : WaitsForLoop(t) => ENABLED ResultTimeout(t)

\* The caller's wait in run() or await_() ends with the timeout in this step.
TimesOut(t) ==
  /\ th[t].pc = "result_wait"
  /\ th'[t].pc # "result_wait"
  /\ th'[t].last.val = "TimeoutError"

\* The step of the timeout changes nothing but the caller's own position.
TimeoutFrame ==
  [][\A t \in Callers :
       TimesOut(t) =>
         UNCHANGED <<sched, workers, futs, loopv, start_future, stop_future>>]_vars

\* After a timeout the future is not cancelled, the worker goes on driving
\* the loop, and when the loop has nothing left to do the work has run and
\* the future is settled with the work's own outcome.
TimeoutLeavesWork ==
  \A t \in Callers :
    th[t].last.val = "TimeoutError" =>
      LET fr == futs[th[t].last.fut]
      IN /\ fr.st \in {"pending", "value", "exc"}
         /\ asyncio_thread # 0 /\ driver = asyncio_thread
         /\ fr.st # "pending" => fr.ran # 0 /\ fr.st = CoroState(fr.fn) /\ fr.val = fr.fn[2]
         /\ Quiet => fr.st # "pending"

\* C16: a timeout of run() or await_() affects only the waiting caller: it
\* neither cancels nor settles the future, does not stop the scheduler, and
\* the work still runs on the loop and settles the future later.
C16_TimeoutOnlyCaller == []TimeoutLeavesWork /\ TimeoutFrame

\* run() or await_() timed out, and afterwards the work delivered its value
\* to the future.
C16_Witness ==
  /\ th["c1"].pc = "idle"
  /\ th["c1"].last.val = "TimeoutError"
  /\ futs[th["c1"].last.fut].st = "value"
  /\ futs[th["c1"].last.fut].val = Vals[th["c1"].last.fut]

\* C17, parts.  The destination dst has the outcome of the source src.
Mirrors(sst, sval, dst, dval) ==
  CASE sst = "value" -> dst = "value" /\ dval = sval
    [] sst = "exc" -> dst = "exc" /\ dval = sval
    [] sst = "cancelled" -> dst = "cancelled"
    [] OTHER -> FALSE

\* The futures await_submit chained with aio_future_chain_thread.
Chained == {f \in Futures : futs[f].chain = "aio_to_thread"}

\* A settled ThreadFuture has its source's outcome; the value of a source
\* that resolved to a future is a new ThreadFuture chained to that future,
\* which in turn gets that future's outcome.
ChainMirrors ==
  \A f \in Chained :
    LET fr == futs[f]
    IN /\ fr.bst # "pending" =>
            IF fr.fst = "value" /\ fr.fval = "H"
            THEN fr.bst = "value" /\ fr.bval = "B2" /\ fr.chain2 = "aio_to_thread"
                 /\ fr.b2st # "none"
            ELSE Mirrors(fr.fst, fr.fval, fr.bst, fr.bval)
       /\ fr.b2st \notin {"none", "pending"} =>
            Mirrors(fr.f2st, fr.f2val, fr.b2st, fr.b2val)

\* When the loop has nothing left to do, every settled source has settled
\* its ThreadFuture.
ChainDelivers ==
  Quiet =>
    \A f \in Chained :
      /\ futs[f].fst # "pending" => futs[f].bst # "pending"
      /\ futs[f].f2st \notin {"none", "pending"} => futs[f].b2st \notin {"none", "pending"}

\* Neither the future await_submit returned, nor a chained ThreadFuture, nor
\* what the caller got holds an asyncio future.
NoAioExposed ==
  /\ \A f \in Futures :
       futs[f].op = "await" =>
         /\ futs[f].val \notin {"F", "H"}
         /\ futs[f].bval \notin {"F", "H"}
         /\ futs[f].b2val \notin {"F", "H"}
  /\ \A t \in Callers : th[t].last.val \notin {"F", "H"}

\* A chained ThreadFuture, once settled, keeps its outcome.
ChainSettlesOnce ==
  [][\A f \in Chained :
       /\ futs[f].bst # "pending" =>
            futs'[f].bst = futs[f].bst /\ futs'[f].bval = futs[f].bval
       /\ futs[f].b2st \notin {"none", "pending"} =>
            futs'[f].b2st = futs[f].b2st /\ futs'[f].b2val = futs[f].b2val]_vars

\* C17: aio_future_chain_thread(src, dst) with dst pending gives dst the
\* outcome of src once src is settled on the loop (value, exception or
\* cancellation), once only; a value that is itself an asyncio future is
\* replaced by a new ThreadFuture that gets that future's outcome, so no
\* asyncio future is exposed through dst.
C17_ChainToThread ==
  /\ [](ChainMirrors /\ ChainDelivers /\ NoAioExposed)
  /\ ChainSettlesOnce

\* await_ returned the ThreadFuture chained to a source that resolved to a
\* future, and the ThreadFuture put in that future's place holds the
\* exception the future was settled with.
C17_Witness ==
  /\ th["c1"].pc = "idle" /\ th["c1"].last.val = "B"
  /\ \E f \in Chained :
       /\ futs[f].bst = "value" /\ futs[f].bval = "B2"
       /\ futs[f].f2st = "exc" /\ futs[f].b2st = "exc"
       /\ futs[f].b2val = Excs[f + 2]

\* C18, parts.  The futures whose ThreadFuture was chained to an asyncio
\* future with thread_future_chain_aio.
Marshalled == {f \in Futures : futs[f].chain = "thread_to_aio"}

\* A settled or cancelled asyncio future was settled by the loop thread.
OnLoopOnly ==
  \A f \in Marshalled :
    /\ futs[f].fst # "pending" => futs[f].fby = "loop"
    /\ futs[f].f2st \notin {"none", "pending"} => futs[f].f2by = "loop"

\* The step that settles a ThreadFuture leaves its asyncio future as it is:
\* the settlement is a handle in the loop's queue.
SettlementPosted ==
  [][\A f \in Marshalled :
       /\ futs[f].bst = "pending" /\ futs'[f].bst # "pending" =>
            /\ futs'[f].fst = futs[f].fst
            /\ \E i \in 1..Len(ready') : ready'[i] = <<"aio_set", f, 1>>
       /\ futs[f].b2st = "pending" /\ futs'[f].b2st # "pending" =>
            /\ futs'[f].f2st = futs[f].f2st
            /\ \E i \in 1..Len(ready') : ready'[i] = <<"aio_set", f, 2>>]_vars

\* The asyncio future has the ThreadFuture's outcome, a ThreadFuture value
\* standing as the asyncio future made for it.
MirrorsB(sst, sval, dst, dval) ==
  Mirrors(sst, IF sval = "B2" THEN "H" ELSE sval, dst, dval)

\* When the loop has nothing left to do, the asyncio future of a settled
\* ThreadFuture is settled: with the ThreadFuture's outcome, unless code on
\* the loop had settled it before.
MarshalDelivers ==
  Quiet =>
    \A f \in Marshalled :
      LET fr == futs[f]
      IN /\ fr.bst # "pending" =>
              /\ fr.fst # "pending"
              /\ \/ MirrorsB(fr.bst, fr.bval, fr.fst, fr.fval)
                 \/ fr.bst = "cancelled"
                 \/ "InvalidStateError" \in escaped
         /\ fr.b2st \notin {"none", "pending"} =>
              /\ fr.f2st = fr.b2st /\ fr.f2val = fr.b2val

\* C18: thread_future_chain_aio(src, dst): whichever thread settles the
\* ThreadFuture src, the asyncio future dst is settled, mirroring src, only
\* by a callback posted onto the loop and run by the loop thread; no thread
\* other than the loop thread settles or cancels an asyncio future.
C18_SettledOnLoopOnly ==
  /\ [](OnLoopOnly /\ MarshalDelivers)
  /\ SettlementPosted

\* The caller set B2 as B's result and cancelled B2, and the loop thread
\* gave both asyncio futures those outcomes.
C18_Witness ==
  \E f \in Marshalled :
    /\ futs[f].bst = "value" /\ futs[f].bval = "B2"
    /\ futs[f].fst = "value" /\ futs[f].fval = "H" /\ futs[f].fby = "loop"
    /\ futs[f].b2st = "cancelled" /\ futs[f].f2st = "cancelled"
    /\ futs[f].f2by = "loop"

\* C19, parts.  A settled future of submit keeps its outcome.
SettledOnce ==
  [][\A f \in Futures :
       futs[f].op = "submit" /\ futs[f].st # "pending" =>
         futs'[f].st = futs[f].st /\ futs'[f].val = futs[f].val]_vars

\* No set_result or set_exception was refused because the future was
\* already settled.
NoLateSettlement == "InvalidStateError" \notin escaped

\* C19: in every interleaving of the caller's cancel() on the future submit
\* returned with the loop's execution of its callback, the future is settled
\* exactly once (value, exception or cancellation) and no settlement is
\* attempted on it once it is settled.
C19_SettledExactlyOnce == []NoLateSettlement /\ SettledOnce

\* C20, parts.  submit has returned the pending future f to its caller and
\* the callback posted for it sits unexecuted in the loop's queue.
Waiting(f) ==
  /\ futs[f].op = "submit" /\ futs[f].st = "pending" /\ futs[f].cb = "queued"
  /\ th[futs[f].by].pc # "submit_post"
  /\ \E i \in 1..Len(ready) : ready[i] = <<"callback", f, 0>>

\* C20: no stranded work: when one thread calls submit() while another calls
\* stop(), the callback submit posted is executed before the worker
\* terminates or a worker is running for it afterwards; in no reachable state
\* has submit returned a pending future whose callback sits unexecuted in the
\* loop's queue while the scheduler has no worker thread.
C20_NoStrandedWork ==
  \A f \in Futures : Waiting(f) => asyncio_thread # 0

====
